---- MODULE Spec2Model ----
(***************************************************************************)
(* Model of the two command-line tools of madprops/gems:                   *)
(*   pacremove.py  - space freed by a recursive removal (dry run)          *)
(*   pacsize.py    - installed footprint of a dependency tree, by bucket   *)
(* together with the size formatter / parser both tools rest on.           *)
(*                                                                         *)
(* Text is modelled as TLA+ strings (Len, SubSeq and \o act on them), the  *)
(* standard output of an external command as the sequence of its lines.    *)
(* A byte count that is a Python int is an Int; a byte count that is a     *)
(* Python float (pacsize.py) or that is being formatted is an exact        *)
(* number of hundredths of a byte, held as a signed little-endian sequence *)
(* of base-1024 limbs, because 1024^4 does not fit TLC's integers.         *)
(***************************************************************************)
EXTENDS Integers, Sequences, FiniteSets, TLC

VARIABLES
    prog,         \* which program this run is: "pacremove", "pacsize", "format"
    path_has,     \* binaries present on the search path of this run
    pc,           \* position of the program
    out,          \* what was printed so far, in order
    exit_status,  \* -1 while running, else the exit status of the process
    argv,         \* pacremove: sys.argv
    result,       \* last subprocess.run result: returncode, stdout lines, stderr
    i,            \* index of the next line of result.stdout to parse
    total_bytes,  \* pacremove.get_removal_size: running total
    ret,          \* pacremove.main: value returned by get_removal_size
    tree_rc,      \* pacsize: exit status of pactree (never read by the code)
    deps,         \* pacsize.main: deps
    invoked,      \* pacsize: whether pacman -Si was run
    sizes,        \* pacsize: sizes / size_map, in insertion order
    current_pkg,  \* pacsize.get_installed_size_batch: current_pkg
    sorted_pkgs,  \* pacsize.main: sorted_pkgs
    stats,        \* pacsize.main: stats
    count,        \* pacsize.main: count
    report,       \* pacsize.main: total, opt_pct, usr_pct once computed
    fmt,          \* format run: the byte count and the strings made of it
    exc           \* the exception that ended the process, "" when none did

vars == <<prog, path_has, pc, out, exit_status, argv, result, i, total_bytes,
          ret, tree_rc, deps, invoked, sizes, current_pkg, sorted_pkgs, stats,
          count, report, fmt, exc>>

-----------------------------------------------------------------------------
(* Bounds of the model *)

MaxLinesA == 2
MaxLinesB == 3
MaxLowLimbs == 5

-----------------------------------------------------------------------------
(* Python str operations used by the parsers *)

Char(s, k) == SubSeq(s, k, k)

Whitespace == {" ", "\t", "\n", "\r"}

AsciiDigits == "0123456789"

\* U+00B2: str.isdigit() is True for it, it is no decimal digit for int()
SuperscriptTwo == "²"

DigitVal(c) == CHOOSE d \in 0..9 : Char(AsciiDigits, d + 1) = c

IsDecimalChar(c) == \E d \in 0..9 : Char(AsciiDigits, d + 1) = c

RECURSIVE lstrip(_)
lstrip(s) ==
    IF Len(s) > 0 /\ Char(s, 1) \in Whitespace
    THEN lstrip(SubSeq(s, 2, Len(s)))
    ELSE s

RECURSIVE rstrip(_)
rstrip(s) ==
    IF Len(s) > 0 /\ Char(s, Len(s)) \in Whitespace
    THEN rstrip(SubSeq(s, 1, Len(s) - 1))
    ELSE s

strip(s) == rstrip(lstrip(s))

startswith(s, p) == Len(s) >= Len(p) /\ SubSeq(s, 1, Len(p)) = p

\* index of the first c in s, 0 when there is none
Find(s, c) ==
    IF \E k \in 1..Len(s) : Char(s, k) = c
    THEN CHOOSE k \in 1..Len(s) :
             /\ Char(s, k) = c
             /\ \A j \in 1..(k - 1) : Char(s, j) # c
    ELSE 0

\* s.split(sep, 1)
split1(s, sep) ==
    LET k == Find(s, sep)
    IN  IF k = 0 THEN <<s>>
        ELSE <<SubSeq(s, 1, k - 1), SubSeq(s, k + 1, Len(s))>>

\* s.split(): maximal runs of non-whitespace
RECURSIVE split(_)
split(s) ==
    LET t == lstrip(s)
        ends == {k \in 1..Len(t) : Char(t, k) \in Whitespace}
        e == IF ends = {} THEN Len(t) + 1
             ELSE CHOOSE k \in ends : \A j \in ends : k <= j
    IN  IF Len(t) = 0 THEN <<>>
        ELSE <<SubSeq(t, 1, e - 1)>> \o split(SubSeq(t, e, Len(t)))

isdigit(s) ==
    /\ Len(s) > 0
    /\ \A k \in 1..Len(s) : IsDecimalChar(Char(s, k)) \/ Char(s, k) = SuperscriptTwo

\* int(s) for a string of digits: a record, ok = FALSE standing for ValueError
RECURSIVE DecimalOf(_)
DecimalOf(s) ==
    IF Len(s) = 0 THEN 0
    ELSE DecimalOf(SubSeq(s, 1, Len(s) - 1)) * 10 + DigitVal(Char(s, Len(s)))

int(s) ==
    IF Len(s) > 0 /\ \A k \in 1..Len(s) : IsDecimalChar(Char(s, k))
    THEN [ok |-> TRUE, val |-> DecimalOf(s)]
    ELSE [ok |-> FALSE, val |-> 0]

-----------------------------------------------------------------------------
(* Exact arithmetic on byte counts.  A magnitude is a little-endian sequence
   of limbs in 0..Base-1 whose last limb is not 0; <<>> is zero.  A number is
   [neg, mag], counted in hundredths of a byte. *)

Base == 1024

Hundred == 100

RECURSIVE FromInt(_)
FromInt(n) == IF n = 0 THEN <<>> ELSE <<n % Base>> \o FromInt(n \div Base)

RECURSIVE ToInt(_)
ToInt(m) == IF m = <<>> THEN 0 ELSE m[1] + Base * ToInt(Tail(m))

Limb(m, k) == IF k >= 1 /\ k <= Len(m) THEN m[k] ELSE 0

RECURSIVE Norm(_)
Norm(m) ==
    IF m # <<>> /\ m[Len(m)] = 0 THEN Norm(SubSeq(m, 1, Len(m) - 1)) ELSE m

RECURSIVE MulSmall(_, _, _)
MulSmall(m, c, carry) ==
    IF m = <<>> THEN FromInt(carry)
    ELSE LET t == m[1] * c + carry
         IN  <<t % Base>> \o MulSmall(Tail(m), c, t \div Base)

\* m * Base^k
Shl(m, k) == IF m = <<>> THEN <<>> ELSE [j \in 1..k |-> 0] \o m

RECURSIVE AddMag(_, _, _)
AddMag(a, b, carry) ==
    IF a = <<>> /\ b = <<>> THEN FromInt(carry)
    ELSE LET t == Limb(a, 1) + Limb(b, 1) + carry
             ra == IF a = <<>> THEN <<>> ELSE Tail(a)
             rb == IF b = <<>> THEN <<>> ELSE Tail(b)
         IN  <<t % Base>> \o AddMag(ra, rb, t \div Base)

\* a - b for a >= b, before normalisation
RECURSIVE SubLimbs(_, _, _)
SubLimbs(a, b, borrow) ==
    IF a = <<>> THEN <<>>
    ELSE LET t == a[1] - Limb(b, 1) - borrow
             rb == IF b = <<>> THEN <<>> ELSE Tail(b)
         IN  IF t < 0 THEN <<t + Base>> \o SubLimbs(Tail(a), rb, 1)
             ELSE <<t>> \o SubLimbs(Tail(a), rb, 0)

SubMag(a, b) == Norm(SubLimbs(a, b, 0))

\* a < b on magnitudes
RECURSIVE LessMag(_, _)
LessMag(a, b) ==
    IF Len(a) # Len(b) THEN Len(a) < Len(b)
    ELSE IF a = <<>> THEN FALSE
    ELSE IF a[Len(a)] # b[Len(b)] THEN a[Len(a)] < b[Len(b)]
    ELSE LessMag(Norm(SubSeq(a, 1, Len(a) - 1)), Norm(SubSeq(b, 1, Len(b) - 1)))

Zero == [neg |-> FALSE, mag |-> <<>>]

Num(neg, mag) == IF mag = <<>> THEN Zero ELSE [neg |-> neg, mag |-> mag]

\* an int number of bytes as a number of hundredths of a byte
OfBytes(mag) == Num(FALSE, MulSmall(mag, Hundred, 0))

Add(x, y) ==
    IF x.neg = y.neg THEN Num(x.neg, AddMag(x.mag, y.mag, 0))
    ELSE IF LessMag(x.mag, y.mag) THEN Num(y.neg, SubMag(y.mag, x.mag))
    ELSE Num(x.neg, SubMag(x.mag, y.mag))

Neg(x) == Num(~x.neg, x.mag)

Less(x, y) ==
    IF x.neg # y.neg THEN x.neg
    ELSE IF x.neg THEN LessMag(y.mag, x.mag)
    ELSE LessMag(x.mag, y.mag)

-----------------------------------------------------------------------------
(* format_size: the value after k divisions by 1024.0 is x / 1024^k, x in
   hundredths of a byte; dividing a double by a power of two is exact. *)

\* `value < 1024.0' after k divisions
Below1024(x, k) ==
    \/ x.neg
    \/ Len(x.mag) < k + 2
    \/ Len(x.mag) = k + 2 /\ x.mag[k + 2] < Hundred

\* the hundredths printed by f"{value:.2f}" after k divisions: the exact
\* value rounded to two decimals, ties to even
Hundredths(m, k) ==
    LET q == IF Len(m) > k THEN ToInt(SubSeq(m, k + 1, Len(m))) ELSE 0
        top == Limb(m, k)
        low == \E j \in 1..(k - 1) : Limb(m, j) # 0
        up == \/ top > Base \div 2
              \/ top = Base \div 2 /\ (low \/ q % 2 = 1)
    IN  IF k > 0 /\ up THEN q + 1 ELSE q

RECURSIVE IntStr(_)
IntStr(n) ==
    IF n < 10 THEN Char(AsciiDigits, n + 1)
    ELSE IntStr(n \div 10) \o Char(AsciiDigits, (n % 10) + 1)

\* f"{value:.2f}" after k divisions
Fmt2f(x, k) ==
    LET h == Hundredths(x.mag, k)
    IN  (IF x.neg THEN "-" ELSE "") \o IntStr(h \div Hundred) \o "."
            \o IntStr((h % Hundred) \div 10) \o IntStr(h % 10)

\* the for loop over the unit table, entered at unit index k + 1
RECURSIVE FormatLoop(_, _, _)
FormatLoop(x, units, k) ==
    IF k >= Len(units) THEN Fmt2f(x, k) \o " TiB"
    ELSE IF Below1024(x, k) THEN Fmt2f(x, k) \o " " \o units[k + 1]
    ELSE FormatLoop(x, units, k + 1)

pacremove_format_size(size_bytes) ==
    FormatLoop(size_bytes, <<"B", "KiB", "MiB", "GiB", "TiB">>, 0)

pacsize_format_size(bytes_val) ==
    FormatLoop(bytes_val, <<"B", "KiB", "MiB", "GiB">>, 0)

-----------------------------------------------------------------------------
(* parse_size *)

\* float(tok) for the literals  [+-] digits [ . digits{0,2} ]  (what pacman
\* prints and what format_size prints); ok = FALSE stands for ValueError.
\* The value is returned in hundredths, the literal's exact value standing
\* for the double nearest to it.
float(tok) ==
    LET signed == Len(tok) > 0 /\ Char(tok, 1) \in {"-", "+"}
        body == IF signed THEN SubSeq(tok, 2, Len(tok)) ELSE tok
        parts == split1(body, ".")
        whole == parts[1]
        frac == IF Len(parts) > 1 THEN parts[2] ELSE ""
        digits == whole \o frac
        wellformed ==
            /\ Len(digits) > 0
            /\ Len(frac) <= 2
            /\ \A k \in 1..Len(digits) : IsDecimalChar(Char(digits, k))
        scaled == IF Len(frac) = 0 THEN digits \o "00"
                  ELSE IF Len(frac) = 1 THEN digits \o "0"
                  ELSE digits
    IN  IF wellformed
        THEN [ok |-> TRUE, neg |-> signed /\ Char(tok, 1) = "-",
              hund |-> DecimalOf(scaled)]
        ELSE [ok |-> FALSE, neg |-> FALSE, hund |-> 0]

\* multipliers.get(unit, 1), as the exponent of 1024
MultiplierExp(unit) ==
    CASE unit = "B" -> 0
      [] unit = "KiB" -> 1
      [] unit = "MiB" -> 2
      [] unit = "GiB" -> 3
      [] unit = "TiB" -> 4
      [] OTHER -> 0

\* ok = FALSE: float() raised ValueError
parse_size(size_str) ==
    LET parts == split(size_str)
        val == float(parts[1])
    IN  IF Len(parts) # 2 THEN [ok |-> TRUE, val |-> Zero]
        ELSE IF ~val.ok THEN [ok |-> FALSE, val |-> Zero]
        ELSE [ok |-> TRUE,
              val |-> Num(val.neg, Shl(FromInt(val.hund), MultiplierExp(parts[2])))]

-----------------------------------------------------------------------------
(* What the environment can hand to the programs *)

SeqsUpTo(S, n) == UNION {[1..k -> S] : k \in 0..n}

\* pacman -Rcs -p --print-format %s: lines of standard output
RemovalLines == {"12345", "678", "", "  ", "abc", " 42 ", "-5", "1.5", SuperscriptTwo}

RemovalExample == <<"12345", "", "  ", "abc", "678">>

RemovalOutputs == SeqsUpTo(RemovalLines, MaxLinesA) \cup {RemovalExample}

\* pactree -u -s: the listing with exit status 0, or nothing on standard
\* output with exit status 1 (the error goes to standard error)
TreeOutcomes ==
    {[returncode |-> 0, stdout |-> <<"rocm-hip-sdk", "", " glibc ">>],
     [returncode |-> 1, stdout |-> <<>>]}

\* pacman -Si: lines of standard output
InfoLines ==
    {"Name            : foo", "Name: rocm-core", "Name", "Name:",
     "Installed Size  : 2.00 MiB", "Installed Size: -1.00 MiB",
     "Installed Size: abc MiB", "Installed Size: 7", "Installed Size: 3.00 XiB",
     "Installed Size", "Version         : 1.0-1"}

InfoExample ==
    <<"Name: foo", "Installed Size: 2.00 MiB", "Name: bar", "Installed Size: 512.00 KiB">>

ManyNames ==
    <<"rocm-hip-sdk", "hip-runtime", "glibc", "hipify", "rccl", "rocprofiler",
      "amdgpu", "Rocm-core", "libamd", "hsa-rocr", "miopen-hip">>

\* one block per name of ManyNames, the k-th of k KiB
InfoMany ==
    [k \in 1..(2 * Len(ManyNames)) |->
        IF k % 2 = 1 THEN "Name            : " \o ManyNames[(k + 1) \div 2]
        ELSE "Installed Size  : " \o IntStr(k \div 2) \o ".00 KiB"]

InfoOutputs == SeqsUpTo(InfoLines, MaxLinesB) \cup {InfoExample, InfoMany}

ReturnCodes == {0, 1}

\* byte counts handed to the formatters: limbs drawn from LimbSamples, below
\* 8 * 1024^MaxLowLimbs (2^53 for 5 low limbs: ints a double holds exactly)
LimbSamples == {0, 1, 512, 1023}

TopLimbs == {1, 7}

FormatInputs ==
    LET low == SeqsUpTo(LimbSamples, MaxLowLimbs)
        full == {l \o <<t>> : l \in [1..MaxLowLimbs -> LimbSamples], t \in TopLimbs}
    IN  {Norm(l) : l \in low} \cup full \cup {<<128, 1>>}

-----------------------------------------------------------------------------
(* Initial states *)

\* returncode -1: no command was run yet
NoResult == [returncode |-> -1, stdout |-> <<>>, stderr |-> ""]

None == [set |-> FALSE, name |-> ""]

NoValue == [none |-> TRUE, val |-> 0]

One == Num(FALSE, <<1>>)

\* a percentage is kept as the quotient it is made of: (num / den) * 100
ZeroPct == [num |-> Zero, den |-> One]

NoReport == [done |-> FALSE, total |-> Zero, opt_pct |-> ZeroPct, usr_pct |-> ZeroPct]

NoFmt == [b |-> <<>>, sA |-> "", sB |-> "", pA |-> [ok |-> TRUE, val |-> Zero],
          pB |-> [ok |-> TRUE, val |-> Zero]]

Idle ==
    /\ out = <<>>
    /\ exit_status = -1
    /\ result = NoResult
    /\ i = 0
    /\ total_bytes = 0
    /\ ret = NoValue
    /\ tree_rc = 0
    /\ deps = <<>>
    /\ invoked = FALSE
    /\ sizes = <<>>
    /\ current_pkg = None
    /\ sorted_pkgs = <<>>
    /\ stats = [opt |-> Zero, usr |-> Zero]
    /\ count = 0
    /\ report = NoReport
    /\ exc = ""

InitRemove ==
    /\ prog = "pacremove"
    /\ path_has \in SUBSET {"sudo", "pacman"}
    /\ argv \in {<<"pacremove.py">>, <<"pacremove.py", "rocm-core">>}
    /\ pc = "main"
    /\ fmt = NoFmt
    /\ Idle

InitSize ==
    /\ prog = "pacsize"
    /\ path_has \in SUBSET {"pactree", "pacman"}
    /\ argv = <<"pacsize.py">>
    /\ pc = "main"
    /\ fmt = NoFmt
    /\ Idle

InitFormat ==
    /\ prog = "format"
    /\ path_has = {}
    /\ argv = <<>>
    /\ pc = "format_a"
    /\ fmt \in {[NoFmt EXCEPT !.b = b] : b \in FormatInputs}
    /\ Idle

-----------------------------------------------------------------------------
(* pacremove.py *)

Dashes40 == "----------------------------------------"

pacremove_vars == <<tree_rc, deps, invoked, sizes, current_pkg, sorted_pkgs, stats,
                    count, report, fmt>>

\* main: the usage check
pacremove_main ==
    /\ prog = "pacremove" /\ pc = "main"
    /\ IF Len(argv) < 2
       THEN /\ out' = Append(out, "Usage: python check_removal_size_v3.py <package_name>")
            /\ exit_status' = 1
            /\ pc' = "done"
       ELSE /\ out' = Append(out, "Calculating space freed by removing '" \o argv[2]
                                      \o "' recursively...")
            /\ exit_status' = exit_status
            /\ pc' = "run"
    /\ UNCHANGED <<exc, prog, path_has, argv, result, i, total_bytes, ret, pacremove_vars>>

\* get_removal_size: subprocess.run(["sudo", "pacman", ...]); FileNotFoundError is
\* raised when the executable of the command, sudo, is not on the search path;
\* sudo exits 1 when it cannot find the command it is to run
get_removal_size_run ==
    /\ prog = "pacremove" /\ pc = "run"
    /\ IF "sudo" \notin path_has
       THEN /\ out' = Append(out, "Error: pacman not found.")
            /\ exit_status' = 1
            /\ pc' = "done"
            /\ result' = result
       ELSE /\ \/ /\ "pacman" \notin path_has
                  /\ result' = [returncode |-> 1, stdout |-> <<>>,
                                stderr |-> "sudo: pacman: command not found\n"]
               \/ /\ "pacman" \in path_has
                  /\ result' = [returncode |-> 1, stdout |-> <<>>,
                                stderr |-> "error: target not found: " \o argv[2] \o "\n"]
               \/ /\ "pacman" \in path_has
                  /\ \E lines \in RemovalOutputs :
                         result' = [returncode |-> 0, stdout |-> lines, stderr |-> ""]
            /\ pc' = "check"
            /\ UNCHANGED <<out, exit_status>>
    /\ UNCHANGED <<exc, prog, path_has, argv, i, total_bytes, ret, pacremove_vars>>

\* get_removal_size: the returncode check
get_removal_size_check ==
    /\ prog = "pacremove" /\ pc = "check"
    /\ IF result.returncode # 0
       THEN /\ out' = out \o <<"Error: Pacman returned an error.", strip(result.stderr)>>
            /\ ret' = [none |-> TRUE, val |-> 0]
            /\ pc' = "returned"
            /\ UNCHANGED <<i, total_bytes>>
       ELSE /\ total_bytes' = 0
            /\ i' = 1
            /\ pc' = "loop"
            /\ UNCHANGED <<out, ret>>
    /\ UNCHANGED <<exc, prog, path_has, argv, result, exit_status, pacremove_vars>>

\* get_removal_size: one iteration of the loop over result.stdout.splitlines();
\* the ValueError of int() is caught nowhere and ends the process
get_removal_size_line ==
    /\ prog = "pacremove" /\ pc = "loop"
    /\ i <= Len(result.stdout)
    /\ LET line == strip(result.stdout[i])
       IN  IF isdigit(line)
           THEN IF int(line).ok
                THEN /\ total_bytes' = total_bytes + int(line).val
                     /\ i' = i + 1
                     /\ UNCHANGED <<pc, exit_status, exc>>
                ELSE /\ pc' = "raised"
                     /\ exc' = "ValueError"
                     /\ exit_status' = 1
                     /\ UNCHANGED <<total_bytes, i>>
           ELSE /\ i' = i + 1
                /\ UNCHANGED <<total_bytes, pc, exit_status, exc>>
    /\ UNCHANGED <<prog, path_has, argv, result, out, ret, pacremove_vars>>

\* get_removal_size: return total_bytes
get_removal_size_return ==
    /\ prog = "pacremove" /\ pc = "loop"
    /\ i > Len(result.stdout)
    /\ ret' = [none |-> FALSE, val |-> total_bytes]
    /\ pc' = "returned"
    /\ UNCHANGED <<exc, prog, path_has, argv, result, out, exit_status, i, total_bytes,
                   pacremove_vars>>

\* main: the report
pacremove_report ==
    /\ prog = "pacremove" /\ pc = "returned"
    /\ IF ~ret.none
       THEN LET readable_size == pacremove_format_size(OfBytes(FromInt(ret.val)))
            IN  out' = out \o <<Dashes40, "Space to be freed: " \o readable_size, Dashes40>>
       ELSE out' = out
    /\ exit_status' = 0
    /\ pc' = "done"
    /\ UNCHANGED <<exc, prog, path_has, argv, result, i, total_bytes, ret, pacremove_vars>>

-----------------------------------------------------------------------------
(* the formatters and parse_size applied to a byte count *)

format_vars == <<exc, prog, path_has, out, exit_status, argv, result, i, total_bytes, ret,
                 tree_rc, deps, invoked, sizes, current_pkg, sorted_pkgs, stats,
                 count, report>>

apply_pacremove_format_size ==
    /\ prog = "format" /\ pc = "format_a"
    /\ fmt' = [fmt EXCEPT !.sA = pacremove_format_size(OfBytes(fmt.b))]
    /\ pc' = "format_b"
    /\ UNCHANGED format_vars

apply_pacsize_format_size ==
    /\ prog = "format" /\ pc = "format_b"
    /\ fmt' = [fmt EXCEPT !.sB = pacsize_format_size(OfBytes(fmt.b))]
    /\ pc' = "parse"
    /\ UNCHANGED format_vars

apply_parse_size ==
    /\ prog = "format" /\ pc = "parse"
    /\ fmt' = [fmt EXCEPT !.pA = parse_size(fmt.sA), !.pB = parse_size(fmt.sB)]
    /\ pc' = "done"
    /\ UNCHANGED format_vars

-----------------------------------------------------------------------------
(* pacsize.py *)

Dashes50 == "--------------------------------------------------"

TopCount == 10

\* sizes[key] = value on a dict kept in insertion order, as <<key, value>> pairs
DictSet(d, key, value) ==
    IF \E k \in 1..Len(d) : d[k][1] = key
    THEN [k \in 1..Len(d) |-> IF d[k][1] = key THEN <<key, value>> ELSE d[k]]
    ELSE Append(d, <<key, value>>)

\* sorted(items, key=lambda x: x[1], reverse=True): stable, largest first
RECURSIVE InsertDesc(_, _)
InsertDesc(sorted, item) ==
    IF sorted = <<>> THEN <<item>>
    ELSE IF Less(Head(sorted)[2], item[2]) THEN <<item>> \o sorted
    ELSE <<Head(sorted)>> \o InsertDesc(Tail(sorted), item)

RECURSIVE SortedDesc(_)
SortedDesc(items) ==
    IF items = <<>> THEN <<>>
    ELSE InsertDesc(SortedDesc(SubSeq(items, 1, Len(items) - 1)), items[Len(items)])

\* opt_pattern, an alternation anchored at the start of the name
OptPrefixes ==
    {"rocm-", "hip-", "hsa-", "miopen-", "rccl", "comgr", "roc", "amd", "migraphx",
     "mivisionx"}

guess_location(pkg_name) ==
    IF \E p \in OptPrefixes : startswith(pkg_name, p) THEN "/opt" ELSE "/usr"

\* the guard written `total >= 0'
percent_guard_ge(part, total) ==
    IF ~total.neg
    THEN IF total = Zero THEN [ok |-> FALSE, val |-> ZeroPct]
         ELSE [ok |-> TRUE, val |-> [num |-> part, den |-> total]]
    ELSE [ok |-> TRUE, val |-> ZeroPct]

\* (part / total) * 100 if total > 0 else 0; ok = FALSE stands for the
\* ZeroDivisionError of a division by a zero total
percent(part, total) ==
    IF Less(Zero, total)
    THEN IF total = Zero THEN [ok |-> FALSE, val |-> ZeroPct]
         ELSE [ok |-> TRUE, val |-> [num |-> part, den |-> total]]
    ELSE [ok |-> TRUE, val |-> ZeroPct]

pacsize_vars == <<prog, path_has, argv, total_bytes, ret, fmt>>

\* get_all_dependencies: shutil.which("pactree")
get_all_dependencies_which ==
    /\ prog = "pacsize" /\ pc = "main"
    /\ IF "pactree" \notin path_has
       THEN /\ out' = out \o <<"Error: 'pactree' command not found.",
                              "Please install it with: sudo pacman -S pacman-contrib">>
            /\ exit_status' = 1
            /\ pc' = "done"
       ELSE /\ out' = Append(out, "Resolving full dependency tree for rocm-hip-sdk...")
            /\ exit_status' = exit_status
            /\ pc' = "pactree"
    /\ UNCHANGED <<exc, result, i, tree_rc, deps, invoked, sizes, current_pkg, sorted_pkgs,
                   stats, count, report, pacsize_vars>>

\* the list comprehension over result.stdout.splitlines()
RECURSIVE NonBlankStripped(_)
NonBlankStripped(lines) ==
    IF lines = <<>> THEN <<>>
    ELSE IF strip(Head(lines)) # ""
         THEN <<strip(Head(lines))>> \o NonBlankStripped(Tail(lines))
         ELSE NonBlankStripped(Tail(lines))

\* get_all_dependencies: subprocess.run(["pactree", ...]) and its return, then
\* main's two prints; the exit status of pactree is not looked at
get_all_dependencies_run ==
    /\ prog = "pacsize" /\ pc = "pactree"
    /\ \E r \in TreeOutcomes :
           /\ tree_rc' = r.returncode
           /\ deps' = NonBlankStripped(r.stdout)
           /\ out' = out \o <<"Found " \o IntStr(Len(NonBlankStripped(r.stdout)))
                                  \o " dependencies.",
                              "Querying package sizes...">>
    /\ pc' = "batch"
    /\ UNCHANGED <<exc, exit_status, result, i, invoked, sizes, current_pkg, sorted_pkgs,
                   stats, count, report, pacsize_vars>>

\* get_installed_size_batch: the empty-list return, or subprocess.run(["pacman",
\* "-Si"] + packages) with stderr discarded; the exit status is not looked at
get_installed_size_batch_run ==
    /\ prog = "pacsize" /\ pc = "batch"
    /\ IF deps = <<>>
       THEN /\ sizes' = <<>>
            /\ pc' = "sort"
            /\ UNCHANGED <<out, exit_status, result, invoked, i, current_pkg>>
       ELSE IF "pacman" \notin path_has
       THEN /\ out' = Append(out, "Error: pacman not found.")
            /\ exit_status' = 1
            /\ pc' = "done"
            /\ UNCHANGED <<result, invoked, sizes, i, current_pkg>>
       ELSE /\ \E rc \in ReturnCodes, lines \in InfoOutputs :
                   result' = [returncode |-> rc, stdout |-> lines, stderr |-> ""]
            /\ invoked' = TRUE
            /\ sizes' = <<>>
            /\ current_pkg' = None
            /\ i' = 1
            /\ pc' = "parse"
            /\ UNCHANGED <<out, exit_status>>
    /\ UNCHANGED <<exc, tree_rc, deps, sorted_pkgs, stats, count, report, pacsize_vars>>

\* get_installed_size_batch: one iteration of the loop over the lines; the
\* ValueError of float() in parse_size is caught nowhere and ends the process
get_installed_size_batch_line ==
    /\ prog = "pacsize" /\ pc = "parse"
    /\ i <= Len(result.stdout)
    /\ LET line == strip(result.stdout[i])
           parts == split1(line, ":")
           truthy == current_pkg.set /\ current_pkg.name # ""
       IN  IF startswith(line, "Name")
           THEN /\ current_pkg' = IF Len(parts) > 1
                                  THEN [set |-> TRUE, name |-> strip(parts[2])]
                                  ELSE current_pkg
                /\ i' = i + 1
                /\ UNCHANGED <<sizes, pc, exit_status, exc>>
           ELSE IF startswith(line, "Installed Size") /\ truthy /\ Len(parts) > 1
           THEN LET size == parse_size(strip(parts[2]))
                IN  IF size.ok
                    THEN /\ sizes' = DictSet(sizes, current_pkg.name, size.val)
                         /\ current_pkg' = None
                         /\ i' = i + 1
                         /\ UNCHANGED <<pc, exit_status, exc>>
                    ELSE /\ pc' = "raised"
                         /\ exc' = "ValueError"
                         /\ exit_status' = 1
                         /\ UNCHANGED <<sizes, current_pkg, i>>
           ELSE /\ i' = i + 1
                /\ UNCHANGED <<sizes, current_pkg, pc, exit_status, exc>>
    /\ UNCHANGED <<out, result, tree_rc, deps, invoked, sorted_pkgs, stats, count,
                   report, pacsize_vars>>

\* get_installed_size_batch: return sizes
get_installed_size_batch_return ==
    /\ prog = "pacsize" /\ pc = "parse"
    /\ i > Len(result.stdout)
    /\ pc' = "sort"
    /\ UNCHANGED <<exc, out, exit_status, result, i, tree_rc, deps, invoked, sizes,
                   current_pkg, sorted_pkgs, stats, count, report, pacsize_vars>>

\* main: stats, sorted_pkgs, the table header, count
pacsize_sort ==
    /\ prog = "pacsize" /\ pc = "sort"
    /\ stats' = [opt |-> Zero, usr |-> Zero]
    /\ sorted_pkgs' = SortedDesc(sizes)
    /\ out' = out \o <<"", "Top 10 Largest Packages        Dest       Size      ",
                       Dashes50>>
    /\ count' = 0
    /\ pc' = "aggregate"
    /\ UNCHANGED <<exc, exit_status, result, i, tree_rc, deps, invoked, sizes, current_pkg,
                   report, pacsize_vars>>

\* `stats[loc] = size' written for `stats[loc] += size'
Accumulate_assign(st, loc, size) ==
    IF loc = "/opt" THEN [st EXCEPT !.opt = size] ELSE [st EXCEPT !.usr = size]

\* stats[loc] += size
Accumulate(st, loc, size) ==
    IF loc = "/opt" THEN [st EXCEPT !.opt = Add(st.opt, size)]
    ELSE [st EXCEPT !.usr = Add(st.usr, size)]

\* main: one iteration of the loop over sorted_pkgs; the entry at the head of
\* sorted_pkgs is the next one
pacsize_aggregate ==
    /\ prog = "pacsize" /\ pc = "aggregate"
    /\ sorted_pkgs # <<>>
    /\ LET pkg == Head(sorted_pkgs)[1]
           size == Head(sorted_pkgs)[2]
           loc == guess_location(pkg)
       IN  /\ stats' = Accumulate(stats, loc, size)
           /\ IF count < TopCount
              THEN /\ out' = Append(out, <<pkg, loc, pacsize_format_size(size)>>)
                   /\ count' = count + 1
              ELSE UNCHANGED <<out, count>>
    /\ sorted_pkgs' = Tail(sorted_pkgs)
    /\ UNCHANGED <<exc, pc, exit_status, result, i, tree_rc, deps, invoked, sizes,
                   current_pkg, report, pacsize_vars>>

\* main: total, the two percentages and the distribution summary
pacsize_report ==
    /\ prog = "pacsize" /\ pc = "aggregate"
    /\ sorted_pkgs = <<>>
    /\ LET total == Add(stats.opt, stats.usr)
           opt_pct == percent(stats.opt, total)
           usr_pct == percent(stats.usr, total)
       IN  IF opt_pct.ok /\ usr_pct.ok
           THEN /\ report' = [done |-> TRUE, total |-> total, opt_pct |-> opt_pct.val,
                              usr_pct |-> usr_pct.val]
                /\ out' = out \o <<Dashes50, "", "--- ESTIMATED DISTRIBUTION ---",
                                   <<"/opt Usage : ", pacsize_format_size(stats.opt), opt_pct.val>>,
                                   <<"/usr Usage : ", pacsize_format_size(stats.usr), usr_pct.val>>,
                                   <<"TOTAL      : ", pacsize_format_size(total)>>>>
                /\ exit_status' = 0
                /\ pc' = "done"
                /\ exc' = exc
           ELSE /\ pc' = "raised"
                /\ exc' = "ZeroDivisionError"
                /\ exit_status' = 1
                /\ UNCHANGED <<report, out>>
    /\ UNCHANGED <<result, i, tree_rc, deps, invoked, sizes, current_pkg, sorted_pkgs,
                   stats, count, pacsize_vars>>

-----------------------------------------------------------------------------

NextRemove ==
    \/ pacremove_main
    \/ get_removal_size_run
    \/ get_removal_size_check
    \/ get_removal_size_line
    \/ get_removal_size_return
    \/ pacremove_report

NextFormat ==
    \/ apply_pacremove_format_size
    \/ apply_pacsize_format_size
    \/ apply_parse_size

NextSize ==
    \/ get_all_dependencies_which
    \/ get_all_dependencies_run
    \/ get_installed_size_batch_run
    \/ get_installed_size_batch_line
    \/ get_installed_size_batch_return
    \/ pacsize_sort
    \/ pacsize_aggregate
    \/ pacsize_report

\* one run of pacremove.py
SpecRemove == InitRemove /\ [][NextRemove]_vars

\* the two formatters and parse_size on one byte count
SpecFormat == InitFormat /\ [][NextFormat]_vars

\* one run of pacsize.py
SpecSize == InitSize /\ [][NextSize]_vars

-----------------------------------------------------------------------------
(* Properties of the formatters and of parse_size, under SpecFormat *)

\* the ordered unit table of the size formatter
UnitTable == <<"B", "KiB", "MiB", "GiB", "TiB">>

\* the power of 1024 a unit label stands for, -1 for a label not in the table
UnitPower(u) ==
    IF \E k \in 1..Len(UnitTable) : UnitTable[k] = u
    THEN (CHOOSE k \in 1..Len(UnitTable) : UnitTable[k] = u) - 1
    ELSE -1

\* s is "<mantissa> <unit>": two decimals, the unit a label of the table, the
\* mantissa b / 1024^power(unit) rounded to two decimals, its value before
\* the rounding below 1024, and no smaller unit of the table already brings
\* the value below 1024
ScaledToUnit(s, b) ==
    LET parts == split(s)
        m == float(parts[1])
        k == UnitPower(parts[2])
        x == OfBytes(b)
    IN  /\ Len(parts) = 2
        /\ m.ok /\ ~m.neg
        /\ Find(parts[1], ".") = Len(parts[1]) - 2
        /\ k >= 0
        /\ m.hund = Hundredths(x.mag, k)
        /\ Below1024(x, k)
        /\ k > 0 => ~Below1024(x, k - 1)

FormatExamples ==
    /\ fmt.b = <<>> => fmt.sA = "0.00 B" /\ fmt.sB = "0.00 B"
    /\ fmt.b = <<0, 1>> => fmt.sA = "1.00 KiB" /\ fmt.sB = "1.00 KiB"
    /\ fmt.b = <<512, 1>> => fmt.sA = "1.50 KiB" /\ fmt.sB = "1.50 KiB"
    /\ fmt.b = <<0, 0, 0, 1>> => fmt.sA = "1.00 GiB" /\ fmt.sB = "1.00 GiB"

\* C1: for every byte count b >= 0 both format_size functions print b scaled
\* to the unit of the table B, KiB, MiB, GiB, TiB that brings the mantissa
\* below 1024, with two decimals and the label of the power of 1024 divided
\* out; format(0) = "0.00 B", format(1024) = "1.00 KiB",
\* format(1536) = "1.50 KiB", format(1024^3) = "1.00 GiB".  (The mantissa is
\* taken before its rounding: 1048575 bytes print as "1024.00 KiB".)
C1_FormatScalesToUnit ==
    (prog = "format" /\ pc = "done") =>
        /\ ScaledToUnit(fmt.sA, fmt.b)
        /\ ScaledToUnit(fmt.sB, fmt.b)
        /\ FormatExamples

\* what parse_size made of s is within half a hundredth of the unit of s of
\* the b bytes that were formatted
WithinRounding(p, s, b) ==
    LET k == MultiplierExp(split(s)[2])
        diff == Add(p.val, Neg(OfBytes(b)))
        tolerance == IF k = 0 THEN <<>> ELSE Shl(<<Base \div 2>>, k - 1)
    IN  p.ok /\ ~LessMag(tolerance, diff.mag)

\* C2: round trip: for every byte count b >= 0, of every magnitude, and for
\* the formatter of either tool, parse_size(format_size(b)) is within the
\* rounding of the two-decimal mantissa of b.
C2_RoundTrip ==
    (prog = "format" /\ pc = "done") =>
        /\ WithinRounding(fmt.pA, fmt.sA, fmt.b)
        /\ WithinRounding(fmt.pB, fmt.sB, fmt.b)

-----------------------------------------------------------------------------
(* Properties of pacremove.py, under SpecRemove *)

\* the trimmed line is made of decimal digits only
DigitOnly(line) ==
    LET t == strip(line)
    IN  Len(t) > 0 /\ \A k \in 1..Len(t) : IsDecimalChar(Char(t, k))

RECURSIVE SumOfDigitLines(_)
SumOfDigitLines(lines) ==
    IF lines = <<>> THEN 0
    ELSE SumOfDigitLines(SubSeq(lines, 1, Len(lines) - 1))
             + (IF DigitOnly(lines[Len(lines)])
                THEN DecimalOf(strip(lines[Len(lines)])) ELSE 0)

\* C3: when the dry run exits 0, get_removal_size returns the sum of the
\* integer values of the output lines that, trimmed, are made of digits only;
\* every other line leaves the running total as it is; the lines "12345", "",
\* "  ", "abc", "678" give 13023.
C3_RemovalSizeIsSumOfDigitLines ==
    (prog = "pacremove" /\ result.returncode = 0) =>
        /\ pc # "raised"
        /\ pc = "loop" =>
               total_bytes = SumOfDigitLines(SubSeq(result.stdout, 1, i - 1))
        /\ pc \in {"returned", "done"} =>
               /\ ~ret.none
               /\ ret.val = SumOfDigitLines(result.stdout)
               /\ result.stdout = RemovalExample => ret.val = 13023

Terminated == pc \in {"done", "raised"}

Printed(line) == \E k \in 1..Len(out) : out[k] = line

RemovalReportPrinted ==
    \E k \in 1..Len(out) : startswith(out[k], "Space to be freed: ")

BinaryMissing == ~({"sudo", "pacman"} \subseteq path_has)

UsageOutcome ==
    /\ Len(argv) < 2
    /\ Printed("Usage: python check_removal_size_v3.py <package_name>")
    /\ exit_status = 1
    /\ result = NoResult

NotFoundOutcome ==
    /\ Len(argv) >= 2
    /\ BinaryMissing
    /\ exit_status = 1
    /\ ~RemovalReportPrinted

FailedOutcome ==
    /\ result.returncode > 0
    /\ ret.none
    /\ Printed(strip(result.stderr))
    /\ ~RemovalReportPrinted

ReportOutcome ==
    /\ result.returncode = 0
    /\ ~ret.none
    /\ RemovalReportPrinted

OutcomeCount ==
    Cardinality({k \in 1..4 :
        \/ k = 1 /\ UsageOutcome
        \/ k = 2 /\ NotFoundOutcome
        \/ k = 3 /\ FailedOutcome
        \/ k = 4 /\ ReportOutcome})

\* C5: pacremove ends in exactly one of four outcomes: (1) no argument: usage
\* message, exit status 1, no command run; (2) the binary cannot be located:
\* exit status 1; (3) the command exits non-zero: the sentinel is returned, the
\* error text is printed, no report; (4) the command exits 0: the report is
\* printed.  The report is printed if and only if (4) occurs.
C5_FourOutcomes ==
    (prog = "pacremove" /\ Terminated) =>
        /\ OutcomeCount = 1
        /\ RemovalReportPrinted <=> ReportOutcome
        /\ (Len(argv) >= 2 /\ BinaryMissing) => NotFoundOutcome

-----------------------------------------------------------------------------
(* Properties of pacsize.py, under SpecSize *)

Range(f) == {f[k] : k \in DOMAIN f}

\* the identifier the parser holds, "" when it holds none
Identifier(cp) == IF cp.set THEN cp.name ELSE ""

\* one step of the block parser, as the two-state machine describes it; a
\* "Name" or "Installed Size" line without a colon is left open
ParserStep ==
    (prog = "pacsize" /\ pc = "parse" /\ i <= Len(result.stdout)) =>
        LET line == strip(result.stdout[i])
            colon == Find(line, ":")
            value == strip(SubSeq(line, colon + 1, Len(line)))
            ident == Identifier(current_pkg)
        IN  /\ (startswith(line, "Name") /\ colon > 0) =>
                   /\ Identifier(current_pkg') = value
                   /\ sizes' = sizes
            /\ (startswith(line, "Installed Size") /\ colon > 0 /\ ident # "") =>
                   /\ <<ident, parse_size(value).val>> \in Range(sizes')
                   /\ \A e \in Range(sizes') : e[1] = ident \/ e \in Range(sizes)
                   /\ Identifier(current_pkg') = ""
            /\ (startswith(line, "Installed Size") /\ ident = "") =>
                   /\ sizes' = sizes
                   /\ Identifier(current_pkg') = ""
            /\ (~startswith(line, "Name") /\ ~startswith(line, "Installed Size")) =>
                   /\ sizes' = sizes
                   /\ current_pkg' = current_pkg

NameLines(lines) == {k \in 1..Len(lines) : startswith(strip(lines[k]), "Name")}

ParserResult ==
    (prog = "pacsize" /\ pc \in {"parse", "sort"}) =>
        /\ Len(sizes) <= Cardinality(NameLines(result.stdout))
        /\ (pc = "sort" /\ result.stdout = InfoExample) =>
               sizes = <<<<"foo", OfBytes(FromInt(2097152))>>,
                         <<"bar", OfBytes(FromInt(524288))>>>>

\* C4: the batch parser is a two-state machine over the lines: a "Name" line
\* sets the current identifier to the text after the colon; an "Installed
\* Size" line stores parse_size of its value under the current identifier and
\* clears the identifier when one is set, and leaves the map alone when none
\* is; any other line changes neither.  Each Name line yields at most one
\* entry, and the block foo 2.00 MiB / bar 512.00 KiB yields
\* {foo: 2097152, bar: 524288}.
C4_BlockParserTwoStates == [][ParserStep]_vars /\ []ParserResult

CommandFailed == tree_rc # 0 \/ (invoked /\ result.returncode # 0)

TablePrinted == \E k \in 1..Len(out) : out[k] = Dashes50

\* C6: when pactree or pacman -Si exits non-zero, pacsize aborts without a
\* report: neither the package table nor the distribution summary is printed.
C6_FailedCommandAborts ==
    (prog = "pacsize" /\ CommandFailed) => ~TablePrinted /\ ~report.done

\* C7: a malformed line of an external tool's output is skipped and never
\* fatal: the block parser with parse_size runs to the end of every input
\* without raising, whatever the value of an "Installed Size" line.
C7_MalformedLineNeverFatal ==
    prog = "pacsize" => (exc # "ValueError" /\ pc # "raised")

RECURSIVE SumOf(_)
SumOf(entries) ==
    IF entries = {} THEN Zero
    ELSE LET e == CHOOSE x \in entries : TRUE
         IN  Add(e[2], SumOf(entries \ {e}))

\* C8: each percentage is bucket / total * 100 when the grand total is above
\* zero and 0 when it is not; an empty dependency list gives an empty map
\* without a run of pacman -Si, a total of 0 and both percentages 0; no
\* division by zero occurs for any size map.
C8_PercentagesGuarded ==
    prog = "pacsize" =>
        /\ exc # "ZeroDivisionError"
        /\ report.done =>
               /\ report.total = Add(stats.opt, stats.usr)
               /\ IF Less(Zero, report.total)
                  THEN /\ report.opt_pct = [num |-> stats.opt, den |-> report.total]
                       /\ report.usr_pct = [num |-> stats.usr, den |-> report.total]
                  ELSE /\ report.opt_pct = ZeroPct
                       /\ report.usr_pct = ZeroPct
        /\ (deps = <<>> /\ pc \in {"sort", "aggregate", "done"}) =>
               /\ ~invoked
               /\ sizes = <<>>
        /\ (deps = <<>> /\ report.done) =>
               /\ report.total = Zero
               /\ report.opt_pct = ZeroPct
               /\ report.usr_pct = ZeroPct

\* an empty dependency list went through the whole report
C8_Witness ==
    /\ prog = "pacsize" /\ report.done
    /\ deps = <<>> /\ ~invoked
    /\ report.total = Zero

HasOptPrefix(name) ==
    \E p \in OptPrefixes : Len(p) <= Len(name) /\ SubSeq(name, 1, Len(p)) = p

\* the entries of the size map the aggregation loop has been through
Aggregated == Range(sizes) \ Range(sorted_pkgs)

\* C9: every entry of the size map goes to exactly one bucket, /opt when its
\* name begins with one of the prefixes of guess_location and /usr otherwise
\* ("rocm-hip-sdk" and "hip-runtime" to /opt, "glibc" to /usr), and adds its
\* size to that bucket once, printed or not, so that after the aggregation
\* the two bucket totals add up to the sum of all sizes of the map.
C9_EveryEntryInOneBucket ==
    /\ guess_location("rocm-hip-sdk") = "/opt"
    /\ guess_location("hip-runtime") = "/opt"
    /\ guess_location("glibc") = "/usr"
    /\ (prog = "pacsize" /\ (pc = "aggregate" \/ report.done)) =>
           /\ stats.opt = SumOf({e \in Aggregated : HasOptPrefix(e[1])})
           /\ stats.usr = SumOf({e \in Aggregated : ~HasOptPrefix(e[1])})
           /\ sorted_pkgs = <<>> => Add(stats.opt, stats.usr) = SumOf(Range(sizes))

\* a map of more entries than the table prints, both buckets filled
C9_Witness ==
    /\ prog = "pacsize" /\ report.done
    /\ Len(sizes) > TopCount /\ count = TopCount
    /\ stats.opt # Zero /\ stats.usr # Zero

\* C10: every byte count the tools compute is >= 0 whatever the external
\* tools print: the running total of get_removal_size, every value stored in
\* the size map, both bucket totals and the grand total.
C10_ByteCountsNonNegative ==
    /\ total_bytes >= 0
    /\ \A e \in Range(sizes) : ~e[2].neg
    /\ ~stats.opt.neg /\ ~stats.usr.neg
    /\ ~report.total.neg

====
